---- MODULE Spec2Model ----
(***************************************************************************)
(* Call Transcript Analyzer (app.py): the reply parser (JSON extraction,   *)
(* regex fallback, sentiment normalisation), the model gateway, the CSV    *)
(* record logger and the POST /analyze handler.                            *)
(*                                                                         *)
(* Text is a sequence of atoms.  An atom is one punctuation or whitespace  *)
(* character, or one maximal run of word characters (\w+); a text never    *)
(* holds two adjacent word atoms.  Case mapping and substring tests on     *)
(* word atoms are tables over the vocabulary.                              *)
(***************************************************************************)
EXTENDS Integers, Sequences, FiniteSets, TLC

----------------------------------------------------------------------------
(* Bounds *)

MaxFree == 3        \* longest free-form reply drawn atom by atom
NReq == 2           \* requests the server handles (possibly in parallel)

----------------------------------------------------------------------------
(* Text layer *)

SP == " "
NL == "\n"
QT == "\""

\* rows are <<lower, Capitalized, UPPER>> forms of one word
Vocab ==
  << <<"summary", "Summary", "SUMMARY">>,
     <<"sentiment", "Sentiment", "SENTIMENT">>,
     <<"negative", "Negative", "NEGATIVE">>,
     <<"neg", "Neg", "NEG">>,
     <<"frustrated", "Frustrated", "FRUSTRATED">>,
     <<"angry", "Angry", "ANGRY">>,
     <<"positive", "Positive", "POSITIVE">>,
     <<"pos", "Pos", "POS">>,
     <<"satisfied", "Satisfied", "SATISFIED">>,
     <<"happy", "Happy", "HAPPY">>,
     <<"neutral", "Neutral", "NEUTRAL">>,
     <<"upset", "Upset", "UPSET">>,
     <<"thanks", "Thanks", "THANKS">>,
     <<"not", "Not", "NOT">>,
     <<"refund", "Refund", "REFUND">>,
     <<"no", "No", "NO">>,
     <<"produced", "Produced", "PRODUCED">>,
     <<"null", "Null", "NULL">>,
     <<"5", "5", "5">>,
     <<"0", "0", "0">> >>

Words == UNION { {Vocab[i][1], Vocab[i][2], Vocab[i][3]} : i \in DOMAIN Vocab }

Punct == {"{", "}", "[", "]", ":", ",", QT, "-", "."}

Space == {SP, NL}

IsWord(a) == a \in Words

VocabRow(w) == CHOOSE i \in DOMAIN Vocab : w \in {Vocab[i][1], Vocab[i][2], Vocab[i][3]}

\* str.lower() on one atom
LowerAtom(a) == IF IsWord(a) THEN Vocab[VocabRow(a)][1] ELSE a

\* str.upper() on one atom (first character of a word atom when capitalizing)
CapAtom(a) == IF IsWord(a) THEN Vocab[VocabRow(a)][2] ELSE a

\* str.lower()
Lower(s) == [i \in DOMAIN s |-> LowerAtom(s[i])]

\* str.capitalize(): first character upper-cased, the rest lower-cased
Capitalize(s) == [i \in DOMAIN s |-> IF i = 1 THEN CapAtom(s[i]) ELSE LowerAtom(s[i])]

\* str.strip(): drop leading and trailing whitespace
Strip(s) ==
  LET keep == {i \in DOMAIN s : s[i] \notin Space}
  IN  IF keep = {} THEN << >>
      ELSE LET lo == CHOOSE i \in keep : \A j \in keep : i <= j
               hi == CHOOSE i \in keep : \A j \in keep : j <= i
           IN  SubSeq(s, lo, hi)

----------------------------------------------------------------------------
(* Python values produced by json.loads *)

NoneV == [t |-> "none"]
StrV(s) == [t |-> "str", s |-> s]
NumV(n, isFloat) == [t |-> "num", n |-> n, float |-> isFloat]
ArrV(a) == [t |-> "arr", a |-> a]
ObjV(o) == [t |-> "obj", o |-> o]

EmptyObj == [k \in {} |-> NoneV]

\* Python truthiness: None, "", 0, [] and {} are false
Truthy(v) ==
  CASE v.t = "none" -> FALSE
    [] v.t = "str"  -> v.s # << >>
    [] v.t = "num"  -> v.n # 0
    [] v.t = "arr"  -> v.a # << >>
    [] v.t = "obj"  -> DOMAIN v.o # {}

\* isinstance(v, dict)
IsDict(v) == v.t = "obj"

\* dict.get(key) with the default None
DictGet(v, key) == IF key \in DOMAIN v.o THEN v.o[key] ELSE NoneV

----------------------------------------------------------------------------
(* json.loads on atoms *)

PFail == [ok |-> FALSE, v |-> NoneV, next |-> 0]
POk(v, n) == [ok |-> TRUE, v |-> v, next |-> n]

At(txt, i) == IF i \in DOMAIN txt THEN txt[i] ELSE "<eof>"

\* first position at or after i that holds no whitespace
SkipWs(txt, i) ==
  LET stops == {j \in i..Len(txt) : txt[j] \notin Space}
  IN  IF stops = {} THEN Len(txt) + 1
      ELSE CHOOSE j \in stops : \A k \in stops : j <= k

IsNumeral(a) == a \in {"5", "0"}
NumeralValue(a) == IF a = "5" THEN 5 ELSE 0

\* a number whose integer part is the numeral at i: an optional fraction
\* ("." and a numeral) follows; the value is kept in tenths
ParseNumber(txt, i, sign) ==
  IF At(txt, i+1) = "." /\ IsNumeral(At(txt, i+2))
  THEN POk(NumV(sign * (10 * NumeralValue(txt[i]) + NumeralValue(txt[i+2])), TRUE), i+3)
  ELSE POk(NumV(sign * 10 * NumeralValue(txt[i]), FALSE), i+1)

\* a string literal opening at i: runs to the next quote, no raw newline inside
ParseString(txt, i) ==
  LET closes == {j \in (i+1)..Len(txt) : txt[j] = QT}
  IN  IF At(txt, i) # QT \/ closes = {} THEN PFail
      ELSE LET j == CHOOSE c \in closes : \A d \in closes : c <= d
           IN  IF \E k \in (i+1)..(j-1) : txt[k] = NL THEN PFail
               ELSE POk(StrV(SubSeq(txt, i+1, j-1)), j+1)

RECURSIVE ParseValue(_, _)
RECURSIVE ParseElems(_, _, _)
RECURSIVE ParseMembers(_, _, _)

ParseElems(txt, i, acc) ==
  LET e == ParseValue(txt, i)
  IN  IF ~e.ok THEN PFail
      ELSE LET k == SkipWs(txt, e.next)
           IN  CASE At(txt, k) = "," -> ParseElems(txt, SkipWs(txt, k+1), Append(acc, e.v))
                 [] At(txt, k) = "]" -> POk(ArrV(Append(acc, e.v)), k+1)
                 [] OTHER -> PFail

ParseMembers(txt, i, acc) ==
  LET key == ParseString(txt, i)
  IN  IF ~key.ok THEN PFail
      ELSE LET c == SkipWs(txt, key.next)
           IN  IF At(txt, c) # ":" THEN PFail
               ELSE LET e == ParseValue(txt, SkipWs(txt, c+1))
                    IN  IF ~e.ok THEN PFail
                        ELSE LET k == SkipWs(txt, e.next)
                                 upd == (key.v.s :> e.v) @@ acc
                             IN  CASE At(txt, k) = "," -> ParseMembers(txt, SkipWs(txt, k+1), upd)
                                   [] At(txt, k) = "}" -> POk(ObjV(upd), k+1)
                                   [] OTHER -> PFail

ParseValue(txt, i) ==
  LET a == At(txt, i)
  IN  CASE a = QT -> ParseString(txt, i)
        [] a = "{" ->
             LET j == SkipWs(txt, i+1)
             IN  IF At(txt, j) = "}" THEN POk(ObjV(EmptyObj), j+1)
                 ELSE ParseMembers(txt, j, EmptyObj)
        [] a = "[" ->
             LET j == SkipWs(txt, i+1)
             IN  IF At(txt, j) = "]" THEN POk(ArrV(<< >>), j+1)
                 ELSE ParseElems(txt, j, << >>)
        [] IsNumeral(a) -> ParseNumber(txt, i, 1)
        [] a = "-" /\ IsNumeral(At(txt, i+1)) -> ParseNumber(txt, i+1, -1)
        [] a = "null" -> POk(NoneV, i+1)
        [] OTHER -> PFail

\* json.loads(s): one value, then only whitespace; failure stands for the
\* JSONDecodeError
JsonLoads(s) ==
  LET r == ParseValue(s, SkipWs(s, 1))
  IN  IF r.ok /\ SkipWs(s, r.next) = Len(s) + 1 THEN [ok |-> TRUE, v |-> r.v]
      ELSE [ok |-> FALSE, v |-> NoneV]

----------------------------------------------------------------------------
(* extract_json_from_text *)

\* re.search(r'(\{[\s\S]*\})', text): from the first "{" to the last "}"
BraceBlock(text) ==
  LET opens == {i \in DOMAIN text : text[i] = "{"}
  IN  IF opens = {} THEN [found |-> FALSE, g |-> << >>]
      ELSE LET i == CHOOSE o \in opens : \A o2 \in opens : o <= o2
               closes == {j \in (i+1)..Len(text) : text[j] = "}"}
           IN  IF closes = {} THEN [found |-> FALSE, g |-> << >>]
               ELSE LET j == CHOOSE c \in closes : \A c2 \in closes : c2 <= c
                    IN  [found |-> TRUE, g |-> SubSeq(text, i, j)]

\* returns whatever json.loads gives (not only dicts), or None
extract_json_from_text(text) ==
  LET direct == JsonLoads(Strip(text))
      m == BraceBlock(text)
      block == JsonLoads(m.g)
  IN  IF direct.ok THEN direct.v
      ELSE IF m.found /\ block.ok THEN block.v
      ELSE NoneV

----------------------------------------------------------------------------
(* fallback_parse *)

\* the character class [:\-\s]
Sep == {":", "-", SP, NL}

\* first position after i that holds no separator
SepEnd(text, i) ==
  LET stops == {j \in (i+1)..Len(text) : text[j] \notin Sep}
  IN  IF stops = {} THEN Len(text) + 1
      ELSE CHOOSE j \in stops : \A k \in stops : j <= k

\* first newline at or after i, or the end of the text
LineEnd(text, i) ==
  LET nls == {j \in i..Len(text) : text[j] = NL}
  IN  IF nls = {} THEN Len(text) + 1
      ELSE CHOOSE j \in nls : \A k \in nls : j <= k

\* where group 2 of (Summary[:\-\s]+)(.+?)(?:\n|$) starts when the keyword is
\* the atom at s: the separator run is greedy and gives characters back until
\* a non-newline character follows it; 0 when the match fails at s
SummaryGroupStart(text, s) ==
  LET e == SepEnd(text, s)
      qs == {q \in (s+2)..e : q <= Len(text) /\ text[q] # NL}
  IN  IF LowerAtom(text[s]) # "summary" \/ qs = {} THEN 0
      ELSE CHOOSE q \in qs : \A q2 \in qs : q2 <= q

\* re.search(r'(Summary[:\-\s]+)(.+?)(?:\n|$)', text, re.IGNORECASE).group(2)
SummaryMatch(text) ==
  LET starts == {s \in DOMAIN text : SummaryGroupStart(text, s) # 0}
  IN  IF starts = {} THEN [found |-> FALSE, g |-> << >>]
      ELSE LET s == CHOOSE a \in starts : \A b \in starts : a <= b
               q == SummaryGroupStart(text, s)
           IN  [found |-> TRUE, g |-> SubSeq(text, q, LineEnd(text, q) - 1)]

\* re.search(r'(Sentiment[:\-\s]+)(\w+)', text, re.IGNORECASE).group(2)
SentimentMatch(text) ==
  LET starts == {s \in DOMAIN text :
                   /\ LowerAtom(text[s]) = "sentiment"
                   /\ SepEnd(text, s) > s + 1
                   /\ IsWord(At(text, SepEnd(text, s)))}
  IN  IF starts = {} THEN [found |-> FALSE, g |-> << >>]
      ELSE LET s == CHOOSE a \in starts : \A b \in starts : a <= b
           IN  [found |-> TRUE, g |-> <<text[SepEnd(text, s)]>>]

\* " ".join(re.split(r'(?<=[.!?])\s+', t)[:2]): t is cut at each whitespace
\* run that follows a "."
FirstTwoSentences(t) ==
  LET cuts == {p \in 2..Len(t) : t[p] \in Space /\ t[p-1] = "."}
  IN  IF cuts = {} THEN t
      ELSE LET p1 == CHOOSE p \in cuts : \A p2 \in cuts : p <= p2
               r1 == SkipWs(t, p1)
               later == {p \in cuts : p > p1}
               stop == IF later = {} THEN Len(t) + 1
                       ELSE CHOOSE p \in later : \A p2 \in later : p <= p2
           IN  SubSeq(t, 1, p1 - 1) \o <<SP>> \o SubSeq(t, r1, stop - 1)

\* the keywords of the two lists that are substrings of a lower-cased word
SubKeys(w) ==
  CASE w = "angry" -> {"angry"}
    [] w = "frustrated" -> {"frustrat"}
    [] w = "upset" -> {"upset"}
    [] w = "happy" -> {"happy"}
    [] w = "satisfied" -> {"satisfied"}
    [] w = "thanks" -> {"thank"}
    [] OTHER -> {}

NegativeKeys == {"angry", "frustrat", "upset", "not happy", "rude", "bad"}
PositiveKeys == {"thank", "good", "great", "happy", "satisfied", "awesome"}

\* k in low
HasKey(low, k) ==
  IF k = "not happy"
  THEN \E i \in DOMAIN low : /\ low[i] = "not"
                             /\ At(low, i+1) = SP
                             /\ At(low, i+2) = "happy"
  ELSE \E i \in DOMAIN low : k \in SubKeys(low[i])

KeywordSentiment(text) ==
  LET low == Lower(text)
  IN  IF \E k \in NegativeKeys : HasKey(low, k) THEN <<"Negative">>
      ELSE IF \E k \in PositiveKeys : HasKey(low, k) THEN <<"Positive">>
      ELSE <<"Neutral">>

\* fallback_parse without the first-two-sentences default of line 78
fallback_parse_NoSentences(text) ==
  LET m_summary == SummaryMatch(text)
      m_sent == SentimentMatch(text)
      summary == IF m_summary.found THEN Strip(m_summary.g) ELSE << >>
      sentiment == IF m_sent.found THEN Capitalize(Strip(m_sent.g))
                   ELSE KeywordSentiment(text)
  IN  [summary |-> summary, sentiment |-> sentiment]

fallback_parse(text) ==
  LET m_summary == SummaryMatch(text)
      m_sent == SentimentMatch(text)
      summary1 == IF m_summary.found THEN Strip(m_summary.g) ELSE << >>
      summary == IF summary1 # << >> THEN summary1
                 ELSE Strip(FirstTwoSentences(Strip(text)))
      sentiment == IF m_sent.found THEN Capitalize(Strip(m_sent.g))
                   ELSE KeywordSentiment(text)
  IN  [summary |-> summary, sentiment |-> sentiment]

----------------------------------------------------------------------------
(* analyze_transcript_with_groq, from the reply text on *)

NegList == {<<"negative">>, <<"neg">>, <<"frustrated">>, <<"angry">>}
PosList == {<<"positive">>, <<"pos">>, <<"satisfied">>, <<"happy">>}

Placeholder == <<"No", SP, "summary", SP, "produced", ".">>

TypeName(v) ==
  CASE v.t = "none" -> "NoneType"
    [] v.t = "str" -> "str"
    [] v.t = "num" -> IF v.float THEN "float" ELSE "int"
    [] v.t = "arr" -> "list"
    [] v.t = "obj" -> "dict"

AttributeError(v) == "'" \o TypeName(v) \o "' object has no attribute 'strip'"

\* the normalizer without its final default: an unrecognized token passes through
Normalize_PassThrough(sent) ==
  IF ~Truthy(sent) THEN [ok |-> TRUE, v |-> <<"Neutral">>, error |-> ""]
  ELSE IF sent.t # "str" THEN [ok |-> FALSE, v |-> << >>, error |-> AttributeError(sent)]
  ELSE LET s == Capitalize(Strip(sent.s))
       IN  IF Lower(s) \in NegList THEN [ok |-> TRUE, v |-> <<"Negative">>, error |-> ""]
           ELSE IF Lower(s) \in PosList THEN [ok |-> TRUE, v |-> <<"Positive">>, error |-> ""]
           ELSE [ok |-> TRUE, v |-> s, error |-> ""]

\* the normalizer without strip()
Normalize_NoStrip(sent) ==
  IF ~Truthy(sent) THEN [ok |-> TRUE, v |-> <<"Neutral">>, error |-> ""]
  ELSE IF sent.t # "str" THEN [ok |-> FALSE, v |-> << >>, error |-> AttributeError(sent)]
  ELSE LET s == Capitalize(sent.s)
       IN  IF Lower(s) \in NegList THEN [ok |-> TRUE, v |-> <<"Negative">>, error |-> ""]
           ELSE IF Lower(s) \in PosList THEN [ok |-> TRUE, v |-> <<"Positive">>, error |-> ""]
           ELSE [ok |-> TRUE, v |-> <<"Neutral">>, error |-> ""]

\* lines 131-141: the sentiment normalizer; a truthy value that is not text
\* has no strip() and raises
Normalize(sent) ==
  IF ~Truthy(sent) THEN [ok |-> TRUE, v |-> <<"Neutral">>, error |-> ""]
  ELSE IF sent.t # "str" THEN [ok |-> FALSE, v |-> << >>, error |-> AttributeError(sent)]
  ELSE LET s == Capitalize(Strip(sent.s))
       IN  IF Lower(s) \in NegList THEN [ok |-> TRUE, v |-> <<"Negative">>, error |-> ""]
           ELSE IF Lower(s) \in PosList THEN [ok |-> TRUE, v |-> <<"Positive">>, error |-> ""]
           ELSE [ok |-> TRUE, v |-> <<"Neutral">>, error |-> ""]

\* lines 143-147: the placeholder is chosen before strip() is applied
Summarize(summary) ==
  LET chosen == IF Truthy(summary) THEN summary ELSE StrV(Placeholder)
  IN  IF chosen.t # "str" THEN [ok |-> FALSE, v |-> << >>, error |-> AttributeError(chosen)]
      ELSE [ok |-> TRUE, v |-> Strip(chosen.s), error |-> ""]

AnalysisResult(summary, sentiment) ==
  [kind |-> "result", summary |-> summary, sentiment |-> sentiment, error |-> ""]

AnalysisError(msg) ==
  [kind |-> "error", summary |-> << >>, sentiment |-> << >>, error |-> msg]

\* the dict fallback_parse returns, as a Python value
AsDict(fb) ==
  ObjV((<<"summary">> :> StrV(fb.summary)) @@ (<<"sentiment">> :> StrV(fb.sentiment)))

\* lines 126-128
ParseReply(content) ==
  LET ex == extract_json_from_text(content)
  IN  IF ex.t = "none" THEN AsDict(fallback_parse(content)) ELSE ex

\* lines 131-150, from the parsed value on; the AttributeError of strip()
\* on a value that is not text is caught by the outer except
Finalize(parsed) ==
  LET sent == IF IsDict(parsed) THEN DictGet(parsed, <<"sentiment">>) ELSE NoneV
      n == Normalize(sent)
      summary == IF IsDict(parsed) THEN DictGet(parsed, <<"summary">>) ELSE parsed
      sm == Summarize(summary)
  IN  IF ~n.ok THEN AnalysisError(n.error)
      ELSE IF ~sm.ok THEN AnalysisError(sm.error)
      ELSE AnalysisResult(sm.v, n.v)

\* lines 126-150 for a reply text
GatewayResult(content) == Finalize(ParseReply(content))

----------------------------------------------------------------------------
(* Reply texts and sentiment tokens the model may return *)

\* no two adjacent word atoms: every word atom is a maximal run
WellFormed(t) == \A i \in 1..(Len(t) - 1) : ~(IsWord(t[i]) /\ IsWord(t[i+1]))

TextsUpTo(atoms, n) ==
  {t \in UNION {[1..k -> atoms] : k \in 0..n} : WellFormed(t)}

FreeAtoms ==
  {"{", "}", QT, ":", SP, NL, ".", "5", "null", "Summary", "Sentiment", "Happy", "refund"}

FreeReplies == TextsUpTo(FreeAtoms, MaxFree)

Lit(str) == <<QT>> \o str \o <<QT>>

StringValues ==
  { << >>, <<SP>>, <<"refund">>, <<"ANGRY">>, <<SP, "happy", SP>>, <<"upset">>,
    <<"Refund", ".", SP, "thanks", ".">> }

ValueTexts ==
  {Lit(str) : str \in StringValues}
    \cup { <<"5">>, <<"0">>, <<"null">>, <<"5", ".", "0">>, <<"[", "]">>,
           <<"[", "5", "]">>, <<"{", "}">> }

Absent == <<"<absent>">>

Member(key, vt) == Lit(<<key>>) \o <<":", SP>> \o vt

ObjectText(sv, tv) ==
  <<"{">> \o (IF sv = Absent THEN << >> ELSE Member("summary", sv))
          \o (IF sv = Absent \/ tv = Absent THEN << >> ELSE <<",", SP>>)
          \o (IF tv = Absent THEN << >> ELSE Member("sentiment", tv))
          \o <<"}">>

ObjectTexts ==
  {ObjectText(sv, tv) : sv \in ValueTexts \cup {Absent}, tv \in ValueTexts \cup {Absent}}

Prefixes == { << >>, <<"refund", ".", SP>>, <<"{", SP>>, <<"Sentiment", ":", SP, "Happy", NL>> }
Suffixes == { << >>, <<NL>>, <<SP, "thanks", ".">>, <<"}">> }

JsonReplies ==
  {pre \o body \o suf : pre \in Prefixes, suf \in Suffixes, body \in ObjectTexts \cup ValueTexts}

SummaryLines ==
  { << >>, <<"Summary", ":", SP, "refund", ".", NL>>, <<"summary", SP, "-", SP, NL>>,
    <<"SUMMARY", ":", NL, "Refund", SP, "produced", ".", SP, "thanks", ".", SP, "no", ".", NL>> }

SentimentLines ==
  { << >>, <<"Sentiment", ":", SP, "Happy">>, <<"sentiment", SP, "-", SP, "ANGRY", ".">>,
    <<"Sentiment", ":", SP, "upset">>, <<"SENTIMENT", ":", NL, "neutral">>,
    <<"Sentiment", ":", SP, ".">>,
    <<"not", SP, "happy", ".">>, <<"Thanks", ".", SP, "satisfied", ".">>,
    <<"Frustrated", ".", SP, "Refund", ".", SP, "no", ".">> }

ProseReplies == {a \o b : a \in SummaryLines, b \in SentimentLines}

Replies == FreeReplies \cup JsonReplies \cup ProseReplies

\* sentiment tokens: null, empty, blank, every word in every case with and
\* without surrounding blanks, and a two-word token
Tokens ==
  {NoneV, StrV(<< >>), StrV(<<SP>>), StrV(<<"not", SP, "happy">>)}
    \cup {StrV(pre \o <<w>> \o suf) : w \in Words, pre \in {<< >>, <<SP>>}, suf \in {<< >>, <<NL>>}}

----------------------------------------------------------------------------
(* Requests, call outcomes and the log *)

Req == 1..NReq

Missing == [t |-> "missing"]

\* the "transcript" member of a JSON body: absent, null, text or a number
JsonFields ==
  {Missing, NoneV, StrV(<< >>), StrV(<<SP, NL>>), StrV(<<"refund">>), NumV(50, FALSE)}

\* the "transcript" form field, and the "transcript" query-string argument
FormFields == {Missing, StrV(<< >>), StrV(<<SP>>), StrV(<<"thanks">>)}
ArgFields == {StrV(<<"thanks">>)}

\* form fields sent together with a query-string argument
BlankFormFields == {StrV(<< >>), StrV(<<SP>>)}

\* a JSON body that is no object (an array, a string, null): it has no get()
NotObject == [t |-> "notobject"]

Requests ==
  {[is_json |-> TRUE, json |-> j, form |-> Missing, args |-> Missing] :
     j \in JsonFields \cup {NotObject}}
    \cup {[is_json |-> FALSE, json |-> Missing, form |-> f, args |-> Missing] :
            f \in FormFields}
    \cup {[is_json |-> FALSE, json |-> Missing, form |-> f, args |-> a] :
            f \in BlankFormFields, a \in ArgFields}

NoRequest == [is_json |-> FALSE, json |-> Missing, form |-> Missing, args |-> Missing]

\* d.get("transcript", "")
GetOrEmpty(field) == IF field = Missing THEN StrV(<< >>) ELSE field

\* request.values: the query-string arguments, then the form
ValuesGet(req) == IF req.args # Missing THEN req.args ELSE GetOrEmpty(req.form)

\* lines 168-171; "a or b" yields b when a is falsy; request.json.get raises
\* when the body is no object
ReadTranscript(req) ==
  IF req.is_json
  THEN [raised |-> req.json = NotObject,
        v |-> IF req.json = NotObject THEN NoneV ELSE GetOrEmpty(req.json)]
  ELSE [raised |-> FALSE,
        v |-> IF Truthy(GetOrEmpty(req.form)) THEN GetOrEmpty(req.form) ELSE ValuesGet(req)]

\* the validation without the whitespace test
Validate_NoStrip(transcript) ==
  IF ~Truthy(transcript) THEN "reject"
  ELSE IF transcript.t # "str" THEN "raise"
  ELSE "accept"

\* line 173: "reject" is the 400 branch; a truthy value that is not text has
\* no strip() and the handler raises
Validate(transcript) ==
  IF ~Truthy(transcript) THEN "reject"
  ELSE IF transcript.t # "str" THEN "raise"
  ELSE IF Len(Strip(transcript.s)) = 0 THEN "reject"
  ELSE "accept"

\* replies the handler runs see: a summary with every sentiment token, from
\* the JSON path and from the fallback path, and replies that degrade
HandlerReplies ==
  {ObjectText(Lit(<<"refund">>), Lit(tok.s)) :
      tok \in {k \in Tokens \ {NoneV} : \A i \in DOMAIN k.s : k.s[i] # NL}}
    \cup {<<"Summary", ":", SP, "refund", NL, "Sentiment", ":", SP, w>> : w \in Words}
    \cup { <<"[", "5", "]">> }

CallOutcomes ==
  {[raised |-> TRUE, content |-> << >>, msg |-> "Connection error."]}
    \cup {[raised |-> FALSE, content |-> c, msg |-> ""] : c \in HandlerReplies}

\* lines 107-150: an exception of the call becomes the error result
analyze_transcript_with_groq(outcome) ==
  IF outcome.raised THEN AnalysisError(outcome.msg)
  ELSE GatewayResult(outcome.content)

GatewayOutcomes == {analyze_transcript_with_groq(o) : o \in CallOutcomes}

\* the handler without its error branch
HasError_Never(result) == FALSE

\* line 177
HasError(result) == result.kind = "error"

\* a gateway that repeats the call
CallsIssued_Twice(n) == n + 2

\* chat-completion calls one run of the gateway issues (line 108)
CallsIssued(n) == n + 1

Header == << <<"Transcript">>, <<"Summary">>, <<"Sentiment">> >>

\* lines 157-159: what one call of append_to_csv hands to the file
RowsToWrite(write_header, transcript, summary, sentiment) ==
  (IF write_header THEN <<Header>> ELSE << >>) \o << <<transcript, summary, sentiment>> >>

\* the file opened in mode "w"
AppendRows_Truncate(file, rows) == rows

\* line 155: the file is opened in mode "a"
AppendRows(file, rows) == file \o rows

NoResponse ==
  [status |-> 0, format |-> "", text |-> "", transcript |-> << >>,
   summary |-> << >>, sentiment |-> << >>]

\* line 174
Response400 ==
  [status |-> 400, format |-> "text", text |-> "Please provide a non-empty transcript.",
   transcript |-> << >>, summary |-> << >>, sentiment |-> << >>]

\* an exception that leaves the handler: the framework answers 500
ResponseUnhandled ==
  [status |-> 500, format |-> "html", text |-> "Internal Server Error",
   transcript |-> << >>, summary |-> << >>, sentiment |-> << >>]

\* line 178
Response500(msg) ==
  [status |-> 500, format |-> "json", text |-> msg,
   transcript |-> << >>, summary |-> << >>, sentiment |-> << >>]

\* lines 196-199
Response200(is_json, transcript, summary, sentiment) ==
  [status |-> 200, format |-> IF is_json THEN "json" ELSE "html", text |-> "",
   transcript |-> transcript, summary |-> summary, sentiment |-> sentiment]

----------------------------------------------------------------------------
(* State *)

VARIABLES
  reply,        \* the reply text under analysis (parser runs)
  step,         \* how far the parser run has got
  extracted,    \* what extract_json_from_text returned
  fallback,     \* what fallback_parse returned
  analysis,     \* what analyze_transcript_with_groq returned
  token,        \* the sentiment token under normalisation
  norm1,        \* the normalizer applied once
  norm2,        \* the normalizer applied to its own output
  pc,           \* where each request's handler stands
  request,      \* the request a handler is serving
  transcript,   \* local "transcript" of analyze()
  result,       \* local "result" of analyze()
  write_header, \* local "write_header" of append_to_csv()
  response,     \* what each request was answered
  file_exists,  \* CSV_FILE.exists()
  log,          \* the rows of CSV_FILE, in file order
  calls,        \* chat-completion calls issued for each request
  wrote         \* the rows each request appended

pvars == <<reply, step, extracted, fallback, analysis, token, norm1, norm2>>
svars == <<pc, request, transcript, result, write_header, response, file_exists, log,
           calls, wrote>>
vars == <<pvars, svars>>

NoAnalysis == [kind |-> "none", summary |-> << >>, sentiment |-> << >>, error |-> ""]
NoFallback == [summary |-> << >>, sentiment |-> << >>]
NoNorm == [ok |-> FALSE, v |-> << >>, error |-> ""]

InitServer ==
  /\ pc = [r \in Req |-> "idle"]
  /\ request = [r \in Req |-> NoRequest]
  /\ transcript = [r \in Req |-> NoneV]
  /\ result = [r \in Req |-> NoAnalysis]
  /\ write_header = [r \in Req |-> FALSE]
  /\ response = [r \in Req |-> NoResponse]
  /\ file_exists = FALSE
  /\ log = << >>
  /\ calls = [r \in Req |-> 0]
  /\ wrote = [r \in Req |-> << >>]

ParserIdle ==
  /\ reply = << >>
  /\ step = "off"
  /\ extracted = NoneV
  /\ fallback = NoFallback
  /\ analysis = NoAnalysis
  /\ token = NoneV
  /\ norm1 = NoNorm
  /\ norm2 = NoNorm

----------------------------------------------------------------------------
(* The parser, one reply or one token at a time *)

InitReply ==
  /\ reply \in Replies
  /\ step = "reply"
  /\ token = NoneV

InitToken ==
  /\ token \in Tokens
  /\ step = "token"
  /\ reply = << >>

InitParser ==
  /\ InitReply \/ InitToken
  /\ extracted = NoneV
  /\ fallback = NoFallback
  /\ analysis = NoAnalysis
  /\ norm1 = NoNorm
  /\ norm2 = NoNorm
  /\ InitServer

\* line 126
Extract ==
  /\ step = "reply"
  /\ extracted' = extract_json_from_text(reply)
  /\ step' = "extracted"
  /\ UNCHANGED <<reply, fallback, analysis, token, norm1, norm2, svars>>

\* lines 127-128
Fallback ==
  /\ step = "extracted"
  /\ extracted = NoneV
  /\ fallback' = fallback_parse(reply)
  /\ step' = "fellback"
  /\ UNCHANGED <<reply, extracted, analysis, token, norm1, norm2, svars>>

\* lines 130-150
Finish ==
  /\ \/ step = "extracted" /\ extracted # NoneV
     \/ step = "fellback"
  /\ analysis' = Finalize(IF step = "fellback" THEN AsDict(fallback) ELSE extracted)
  /\ step' = "done"
  /\ UNCHANGED <<reply, extracted, fallback, token, norm1, norm2, svars>>

NormalizeOnce ==
  /\ step = "token"
  /\ norm1' = Normalize(token)
  /\ step' = "normalized"
  /\ UNCHANGED <<reply, extracted, fallback, analysis, token, norm2, svars>>

NormalizeAgain ==
  /\ step = "normalized"
  /\ norm1.ok
  /\ norm2' = Normalize(StrV(norm1.v))
  /\ step' = "renormalized"
  /\ UNCHANGED <<reply, extracted, fallback, analysis, token, norm1, svars>>

NextParser == Extract \/ Fallback \/ Finish \/ NormalizeOnce \/ NormalizeAgain

SpecParser == InitParser /\ [][NextParser]_vars

----------------------------------------------------------------------------
(* POST /analyze: requests served in parallel *)

\* analyze() returns: the response goes out, the request context and the
\* handler's locals are gone
Return(r, resp) ==
  /\ response' = [response EXCEPT ![r] = resp]
  /\ pc' = [pc EXCEPT ![r] = "done"]
  /\ request' = [request EXCEPT ![r] = NoRequest]
  /\ transcript' = [transcript EXCEPT ![r] = NoneV]
  /\ result' = [result EXCEPT ![r] = NoAnalysis]

\* a request reaches the server
Arrive(r) ==
  /\ pc[r] = "idle"
  /\ \E req \in Requests : request' = [request EXCEPT ![r] = req]
  /\ pc' = [pc EXCEPT ![r] = "received"]
  /\ UNCHANGED <<transcript, result, write_header, response, file_exists, log, calls,
                 wrote, pvars>>

\* lines 168-176, up to the point where the model call is in flight
Begin(r) ==
  /\ pc[r] = "received"
  /\ LET rd == ReadTranscript(request[r])
         t == rd.v
         v == IF rd.raised THEN "raise" ELSE Validate(t)
     IN  CASE v = "reject" ->
                /\ Return(r, Response400)
                /\ calls' = calls
           [] v = "raise" ->
                /\ Return(r, ResponseUnhandled)
                /\ calls' = calls
           [] v = "accept" ->
                /\ transcript' = [transcript EXCEPT ![r] = t]
                /\ pc' = [pc EXCEPT ![r] = "calling"]
                /\ calls' = [calls EXCEPT ![r] = CallsIssued(calls[r])]
                /\ UNCHANGED <<request, result, response>>
  /\ UNCHANGED <<write_header, file_exists, log, wrote, pvars>>

\* lines 108-150 and 176-181: the call returns or raises, the reply is
\* parsed, and an error result is answered with 500
Complete(r) ==
  /\ pc[r] = "calling"
  /\ \E res \in GatewayOutcomes :
       IF HasError(res)
       THEN Return(r, Response500(res.error))
       ELSE /\ result' = [result EXCEPT ![r] = res]
            /\ pc' = [pc EXCEPT ![r] = "exists"]
            /\ UNCHANGED <<request, transcript, response>>
  /\ UNCHANGED <<write_header, file_exists, log, calls, wrote, pvars>>

\* line 154
CheckExists(r) ==
  /\ pc[r] = "exists"
  /\ write_header' = [write_header EXCEPT ![r] = ~file_exists]
  /\ pc' = [pc EXCEPT ![r] = "open"]
  /\ UNCHANGED <<request, transcript, result, response, file_exists, log, calls, wrote,
                 pvars>>

\* line 155: mode "a" creates the file
OpenFile(r) ==
  /\ pc[r] = "open"
  /\ file_exists' = TRUE
  /\ pc' = [pc EXCEPT ![r] = "write"]
  /\ UNCHANGED <<request, transcript, result, write_header, response, log, calls, wrote,
                 pvars>>

\* lines 156-159: the rows are buffered and reach the file in one append
\* when the with-block closes it
WriteRows(r) ==
  /\ pc[r] = "write"
  /\ LET rows == RowsToWrite(write_header[r], transcript[r].s, result[r].summary,
                             result[r].sentiment)
     IN  /\ log' = AppendRows(log, rows)
         /\ wrote' = [wrote EXCEPT ![r] = wrote[r] \o rows]
  /\ write_header' = [write_header EXCEPT ![r] = FALSE]
  /\ pc' = [pc EXCEPT ![r] = "reply"]
  /\ UNCHANGED <<request, transcript, result, response, file_exists, calls, pvars>>

\* lines 196-199
Reply(r) ==
  /\ pc[r] = "reply"
  /\ Return(r, Response200(request[r].is_json, transcript[r].s, result[r].summary,
                            result[r].sentiment))
  /\ UNCHANGED <<write_header, file_exists, log, calls, wrote, pvars>>

Next ==
  \E r \in Req :
    \/ Arrive(r)
    \/ Begin(r)
    \/ Complete(r)
    \/ CheckExists(r)
    \/ OpenFile(r)
    \/ WriteRows(r)
    \/ Reply(r)

Init == InitServer /\ ParserIdle

Spec == Init /\ [][Next]_vars

----------------------------------------------------------------------------
(* Properties *)

Three == {<<"Positive">>, <<"Neutral">>, <<"Negative">>}

IsPrefix(a, b) == Len(a) <= Len(b) /\ SubSeq(b, 1, Len(a)) = a

DataRows(rows) == {i \in DOMAIN rows : rows[i] # Header}

Answered(r, status) == response[r].status = status

InHandler(r) == pc[r] \in {"calling", "exists", "open", "write", "reply"}

\* the field the transcript is read from: the JSON member or the form field
TranscriptField(req) == IF req.is_json THEN req.json ELSE req.form

\* missing, empty or whitespace-only
BlankField(f) == f = Missing \/ (f.t = "str" /\ Strip(f.s) = << >>)

\* a form request whose form field is missing or empty falls back to the
\* query string; this one carries a usable transcript there
QueryTranscript(req) ==
  /\ ~req.is_json
  /\ ~Truthy(GetOrEmpty(req.form))
  /\ ~BlankField(req.args)

\* no part of the text is a JSON document
NoJsonAnywhere(text) ==
  \A i \in DOMAIN text : \A j \in i..Len(text) : ~JsonLoads(SubSeq(text, i, j)).ok

\* C1: whenever the model call returned a textual reply, the gateway returns
\* an AnalysisResult and never an AnalysisError, whatever the reply text is
C1_NeverError == step = "done" => analysis.kind = "result"

\* C2: every AnalysisResult the gateway returns has a non-empty summary
C2_SummaryNonEmpty ==
  (step = "done" /\ analysis.kind = "result") => analysis.summary # << >>

\* C3: every AnalysisResult a handler holds, every sentiment in a 200
\* response and every sentiment written to the log is one of Positive,
\* Neutral, Negative
C3_SentimentClosed ==
  /\ \A r \in Req :
       /\ result[r].kind = "result" => result[r].sentiment \in Three
       /\ Answered(r, 200) => response[r].sentiment \in Three
  /\ \A i \in DataRows(log) : log[i][3] \in Three

C3_Witness ==
  \E r \in Req : /\ Answered(r, 200)
                 /\ response[r].sentiment = <<"Negative">>
                 /\ \E i \in DataRows(log) : log[i][3] = <<"Negative">>

C6_AppendOnly ==
  /\ [][IsPrefix(log, log')]_vars
  /\ [](\A r \in Req :
          /\ Answered(r, 200) =>
               /\ Cardinality(DataRows(wrote[r])) = 1
               /\ \E i \in DataRows(wrote[r]) :
                    wrote[r][i] = <<response[r].transcript, response[r].summary,
                                    response[r].sentiment>>
               /\ \E i \in DataRows(log) :
                    log[i] = <<response[r].transcript, response[r].summary,
                               response[r].sentiment>>
          /\ (Answered(r, 400) \/ Answered(r, 500)) => wrote[r] = << >>)
  /\ [](Cardinality(DataRows(log))
          = Cardinality({r \in Req : Answered(r, 200) \/ pc[r] = "reply"}))

C6_Witness ==
  /\ \A r \in Req : pc[r] = "done"
  /\ Cardinality({r \in Req : Answered(r, 200)}) = 2
  /\ Cardinality(DataRows(log)) = 2

\* the token trimmed and case-folded, as the specification of the normalizer
\* reads it
Folded(tok) == IF tok = NoneV THEN << >> ELSE Lower(Strip(tok.s))

\* C7: on every text or null token the normalizer yields Negative for
\* negative/neg/frustrated/angry, Positive for positive/pos/satisfied/happy
\* (trimmed, case-folded) and Neutral otherwise, and applying it to its own
\* output changes nothing
C7_NormalizerIdempotent ==
  /\ step \in {"normalized", "renormalized"} =>
       /\ norm1.ok
       /\ norm1.v \in Three
       /\ norm1.v = <<"Negative">> <=>
            Folded(token) \in {<<"negative">>, <<"neg">>, <<"frustrated">>, <<"angry">>}
       /\ norm1.v = <<"Positive">> <=>
            Folded(token) \in {<<"positive">>, <<"pos">>, <<"satisfied">>, <<"happy">>}
  /\ step = "renormalized" => norm2 = norm1

C7_Witness ==
  /\ step = "renormalized"
  /\ token = StrV(<<SP, "ANGRY", NL>>)
  /\ norm2.v = <<"Negative">>

\* C8 as stated: on a reply with no valid JSON anywhere the extractor
\* returns null and fallback_parse yields a non-empty summary and one of the
\* three sentiment values
C8_FallbackClosed ==
  NoJsonAnywhere(reply) =>
    /\ step = "extracted" => extracted = NoneV
    /\ step = "fellback" => (fallback.summary # << >> /\ fallback.sentiment \in Three)

\* C8 amended: on a reply with no valid JSON anywhere the extractor returns
\* null; fallback_parse yields a summary that is non-empty unless the reply
\* is empty or whitespace-only, and a sentiment that is one word, a label of
\* the three or the capitalized word that followed "Sentiment"; the gateway
\* then returns a result with a non-empty summary and one of the three
\* sentiment values
C8_FallbackThenGateway ==
  NoJsonAnywhere(reply) =>
    /\ step = "extracted" => extracted = NoneV
    /\ step = "fellback" =>
         /\ Strip(reply) # << >> => fallback.summary # << >>
         /\ Len(fallback.sentiment) = 1
         /\ IsWord(fallback.sentiment[1])
         /\ fallback.sentiment \in Three \/ fallback.sentiment = Capitalize(fallback.sentiment)
    /\ step = "done" =>
         /\ analysis.kind = "result"
         /\ analysis.summary # << >>
         /\ analysis.sentiment \in Three

C8_Witness ==
  /\ step = "done"
  /\ NoJsonAnywhere(reply)
  /\ fallback.sentiment = <<"Happy">>
  /\ analysis.sentiment = <<"Positive">>
  /\ analysis.summary # << >>

\* a transcript that is text and not blank
UsableTranscript(req) ==
  LET rd == ReadTranscript(req)
  IN  ~rd.raised /\ rd.v.t = "str" /\ Strip(rd.v.s) # << >>

\* C9: a request with a non-empty transcript issues its one model call in
\* the step that validates it; the call is never repeated; nothing is logged
\* or answered while it is in flight, and every log row and every 200 or
\* gateway 500 answer comes after exactly one call
C9_OneCall ==
  /\ [](\A r \in Req :
          /\ calls[r] <= 1
          /\ InHandler(r) => calls[r] = 1
          /\ pc[r] = "calling" => (wrote[r] = << >> /\ response[r] = NoResponse)
          /\ wrote[r] # << >> => calls[r] = 1
          /\ Answered(r, 200) => calls[r] = 1
          /\ (Answered(r, 500) /\ response[r].format = "json") => calls[r] = 1)
  /\ [][\A r \in Req :
          /\ (pc[r] = "received" /\ pc'[r] # "received" /\ UsableTranscript(request[r]))
             => (pc'[r] = "calling" /\ calls'[r] = 1)
          /\ calls[r] = 1 => calls'[r] = 1]_vars

C9_Witness ==
  \E r \in Req : pc[r] = "done" /\ Answered(r, 200) /\ calls[r] = 1 /\ wrote[r] # << >>

\* C10: a non-empty log starts with the header row and holds no other header
\* row, also when requests run append_to_csv in parallel
C10_SingleHeader ==
  log # << >> => (log[1] = Header /\ \A i \in 2..Len(log) : log[i] # Header)

====
